---- MODULE Spec2Model ----
(***************************************************************************)
(* XMLtoICS: conversion of a D2L schedule export (XML) to iCalendar.       *)
(*                                                                         *)
(* Text is modelled character by character: a Python str is a sequence of  *)
(* one-character strings, so that escaping, folding, parsing and rendering *)
(* are computed as the code computes them.  Python's None is the value     *)
(* None below.                                                             *)
(*                                                                         *)
(* Specifications:                                                         *)
(*   SpecFold    fold_ics_line applied to one line                         *)
(*   SpecEscape  ics_escape applied to one text                            *)
(*   SpecRrule   build_rrule applied to one recurrence element             *)
(*   SpecDate    parse_utcdatetime / dt_to_ics round trip                  *)
(*   Spec        a whole conversion, through the command line entry point  *)
(*               (mxl_to_ics) or the HTTP entry point (convert)            *)
(***************************************************************************)
EXTENDS Integers, Sequences, FiniteSets, TLC

VARIABLES
  pc,        \* position of the running call
  arg,       \* argument of the function under call (function-level specs)
  ret,       \* what the function returned (function-level specs)
  padYear,   \* platform: whether the C library's strftime zero-pads %Y
  entry,     \* "cli" (mxl_to_ics) or "http" (convert)
  events,    \* the event elements under the XML root, in document order
  idx,       \* number of events the loop has processed
  lines,     \* the list `lines` of the running conversion
  out,       \* the document written to ics_out / returned, None before
  err,       \* the exception that left the conversion, None if none
  clock,     \* the last value datetime.now() returned
  now,       \* convert's local `now`, read once before the loop
  reads,     \* per processed event, the clock values it read
  prev       \* lines, document and reads of the previous conversion of the same input

fnVars == <<arg, ret>>
convVars == <<entry, events, idx, lines, out, err, clock, now, reads, prev>>
vars == <<pc, arg, ret, padYear, entry, events, idx, lines, out, err, clock, now, reads, prev>>

----------------------------------------------------------------------------
(* Characters and text                                                     *)

None == <<"None">>

CR == "\r"
LF == "\n"
BS == "\\"
CRLF == <<CR, LF>>

Digits == <<"0", "1", "2", "3", "4", "5", "6", "7", "8", "9">>
UpperChars ==
  <<"A","B","C","D","E","F","G","H","I","J","K","L","M",
    "N","O","P","Q","R","S","T","U","V","W","X","Y","Z">>
LowerChars ==
  <<"a","b","c","d","e","f","g","h","i","j","k","l","m",
    "n","o","p","q","r","s","t","u","v","w","x","y","z">>

IsDigit(c) == \E i \in 1..10 : Digits[i] = c
DigitVal(c) == (CHOOSE i \in 1..10 : Digits[i] = c) - 1
AllDigits(s) == \A i \in 1..Len(s) : IsDigit(s[i])

RECURSIVE Num(_)
Num(s) == IF s = <<>> THEN 0
          ELSE 10 * Num(SubSeq(s, 1, Len(s) - 1)) + DigitVal(s[Len(s)])

RECURSIVE Pow10(_)
Pow10(n) == IF n = 0 THEN 1 ELSE 10 * Pow10(n - 1)

\* n written in decimal, zero-padded to width w (C's %0wd)
Pad(n, w) == [i \in 1..w |-> Digits[((n \div Pow10(w - i)) % 10) + 1]]

RECURSIVE DecWidth(_)
DecWidth(n) == IF n < 10 THEN 1 ELSE 1 + DecWidth(n \div 10)

\* n written in decimal with no padding (C's %d)
Decimal(n) == Pad(n, DecWidth(n))

StartsWithAt(s, i, p) ==
  /\ i + Len(p) - 1 <= Len(s)
  /\ \A k \in 1..Len(p) : s[i + k - 1] = p[k]

StartsWith(s, p) == StartsWithAt(s, 1, p)
EndsWith(s, p) == Len(p) <= Len(s) /\ StartsWithAt(s, Len(s) - Len(p) + 1, p)
Drop(s, n) == SubSeq(s, n + 1, Len(s))

\* sep.join(parts), the list halved at each step
RECURSIVE JoinRange(_, _, _, _)
JoinRange(parts, lo, hi, sep) ==
  IF lo > hi THEN <<>>
  ELSE IF lo = hi THEN parts[lo]
  ELSE LET mid == (lo + hi) \div 2
       IN  JoinRange(parts, lo, mid, sep) \o sep \o JoinRange(parts, mid + 1, hi, sep)

Join(parts, sep) == JoinRange(parts, 1, Len(parts), sep)

\* the replacement within s[lo..hi].  old is non-empty and no proper prefix
\* of it is a suffix of it (a single character, CR LF, CR LF space), so its
\* occurrences do not overlap and s.replace replaces every one of them; the
\* range is halved where no occurrence lies across the cut.
RECURSIVE ReplaceIn(_, _, _, _, _)
ReplaceIn(s, lo, hi, old, new) ==
  IF hi - lo + 1 < Len(old) THEN SubSeq(s, lo, hi)
  ELSE IF hi - lo + 1 = Len(old)
  THEN (IF StartsWithAt(s, lo, old) THEN new ELSE SubSeq(s, lo, hi))
  ELSE LET mid == (lo + hi) \div 2
           across == {i \in lo..mid : i + Len(old) - 1 > mid /\ i + Len(old) - 1 <= hi
                                      /\ StartsWithAt(s, i, old)}
           cut == IF across = {} THEN mid
                  ELSE LET i == CHOOSE i \in across : TRUE
                       IN  IF i > lo THEN i - 1 ELSE i + Len(old) - 1
       IN  ReplaceIn(s, lo, cut, old, new) \o ReplaceIn(s, cut + 1, hi, old, new)

\* s.replace(old, new)
Replace(s, old, new) == ReplaceIn(s, 1, Len(s), old, new)

\* s.split(sep), for sep as old above: the pieces between the occurrences
Split(s, sep) ==
  LET occ == {i \in 1..Len(s) : StartsWithAt(s, i, sep)}
      nth(k) == CHOOSE i \in occ : Cardinality({j \in occ : j < i}) = k - 1
      n == Cardinality(occ)
  IN  [k \in 1..(n + 1) |->
         SubSeq(s, IF k = 1 THEN 1 ELSE nth(k - 1) + Len(sep),
                   IF k = n + 1 THEN Len(s) ELSE nth(k) - 1)]

IsSpace(c) == c \in {" ", "\t", CR, LF}

\* s.strip()
strip(s) ==
  LET keep == {i \in 1..Len(s) : ~IsSpace(s[i])}
  IN  IF keep = {} THEN <<>>
      ELSE SubSeq(s, CHOOSE i \in keep : \A j \in keep : i <= j,
                     CHOOSE i \in keep : \A j \in keep : j <= i)

UpperOf(c) == IF \E i \in 1..26 : LowerChars[i] = c
              THEN UpperChars[CHOOSE i \in 1..26 : LowerChars[i] = c] ELSE c
LowerOf(c) == IF \E i \in 1..26 : UpperChars[i] = c
              THEN LowerChars[CHOOSE i \in 1..26 : UpperChars[i] = c] ELSE c

\* s.lower()
lower(s) == [i \in 1..Len(s) |-> LowerOf(s[i])]
\* s.capitalize()
capitalize(s) == [i \in 1..Len(s) |-> IF i = 1 THEN UpperOf(s[i]) ELSE LowerOf(s[i])]

\* n copies of the characters of pat, cyclically, cut to length n
Cyclic(pat, n) == [i \in 1..n |-> pat[((i - 1) % Len(pat)) + 1]]

----------------------------------------------------------------------------
(* ics_escape                                                              *)

\* index of the first ">" at or after i, 0 if none
FirstGt(s, i) ==
  LET js == {j \in i..Len(s) : s[j] = ">"}
  IN  IF js = {} THEN 0 ELSE CHOOSE j \in js : \A k \in js : j <= k

\* index of the first place at or after i where <[^>]+> matches, 0 if none
FirstTag(s, i) ==
  LET ms == {m \in i..Len(s) : /\ s[m] = "<"
                               /\ m + 1 <= Len(s)
                               /\ s[m + 1] # ">"
                               /\ FirstGt(s, m + 1) # 0}
  IN  IF ms = {} THEN 0 ELSE CHOOSE m \in ms : \A k \in ms : m <= k

\* re.sub(r"<[^>]+>", "", s): what is before the leftmost match is kept,
\* the match is dropped, the scan goes on after its ">"
RECURSIVE StripTagsFrom(_, _)
StripTagsFrom(s, i) ==
  LET m == FirstTag(s, i)
  IN  IF m = 0 THEN SubSeq(s, i, Len(s))
      ELSE SubSeq(s, i, m - 1) \o StripTagsFrom(s, FirstGt(s, m + 1) + 1)

StripTags(s) == StripTagsFrom(s, 1)

\* mutant: semicolons and commas escaped before the backslashes
EscapeCharsBackslashLast(s) ==
  Replace(Replace(Replace(s, <<";">>, <<BS, ";">>), <<",">>, <<BS, ",">>),
          <<BS>>, <<BS, BS>>)

\* s.replace("\\", "\\\\").replace(";", r"\;").replace(",", r"\,")
EscapeChars(s) ==
  Replace(Replace(Replace(s, <<BS>>, <<BS, BS>>), <<";">>, <<BS, ";">>),
          <<",">>, <<BS, ",">>)

\* s.replace("\r\n", "\\n").replace("\n", "\\n")
EscapeNewlines(s) == Replace(Replace(s, CRLF, <<BS, "n">>), <<LF>>, <<BS, "n">>)

ics_escape(s) ==
  IF s = None THEN <<>>
  ELSE EscapeNewlines(EscapeChars(StripTags(s)))

----------------------------------------------------------------------------
(* fold_ics_line                                                           *)

max_len == 75

\* mutant: every segment is cut one character too late
RECURSIVE fold_loop_long(_, _)
fold_loop_long(parts, line) ==
  IF Len(line) > max_len
  THEN fold_loop_long(Append(parts, SubSeq(line, 1, max_len + 1)),
                      <<" ">> \o Drop(line, max_len + 1))
  ELSE Append(parts, line)

\* the while loop and the append after it
RECURSIVE fold_loop(_, _)
fold_loop(parts, line) ==
  IF Len(line) > max_len
  THEN fold_loop(Append(parts, SubSeq(line, 1, max_len)),
                 <<" ">> \o Drop(line, max_len))
  ELSE Append(parts, line)

\* the list the function joins (the line itself on the early return)
fold_parts(line) == IF Len(line) <= max_len THEN <<line>> ELSE fold_loop(<<>>, line)

fold_ics_line(line) ==
  IF Len(line) <= max_len THEN line ELSE Join(fold_loop(<<>>, line), CRLF)

----------------------------------------------------------------------------
(* Results of Python calls: a value, None, or a raised exception           *)

NoneR == [tag |-> "none"]
StrR(s) == [tag |-> "str", s |-> s]
\* ValueError(text + names): names is the input text the message quotes
ErrR(text, names) == [tag |-> "err", text |-> text, names |-> names]
IsErr(r) == r.tag = "err"

Truthy(s) == s # None /\ s # <<>>
\* a or b, on optional text
OrElse(a, b) == IF Truthy(a) THEN a ELSE b

----------------------------------------------------------------------------
(* datetime.fromisoformat, strftime                                        *)

IsLeap(y) == (y % 4 = 0 /\ y % 100 # 0) \/ y % 400 = 0
DaysInMonth(y, m) ==
  IF m = 2 THEN (IF IsLeap(y) THEN 29 ELSE 28)
  ELSE IF m \in {4, 6, 9, 11} THEN 30 ELSE 31

DateTime(y, mo, d, h, mi, sec, us, tz) ==
  [tag |-> "dt", year |-> y, month |-> mo, day |-> d, hour |-> h,
   minute |-> mi, second |-> sec, microsecond |-> us, tzinfo |-> tz]

\* length of the date at the head of s: 10 (YYYY-MM-DD), 8 (YYYYMMDD), 0 (none)
IsoDateLen(s) ==
  IF /\ Len(s) >= 10
     /\ s[5] = "-" /\ s[8] = "-"
     /\ AllDigits(SubSeq(s, 1, 4)) /\ AllDigits(SubSeq(s, 6, 7))
     /\ AllDigits(SubSeq(s, 9, 10))
  THEN 10
  ELSE IF Len(s) >= 8 /\ AllDigits(SubSeq(s, 1, 8)) THEN 8 ELSE 0

\* the time of day after the separator: <<hour, minute, second, microsecond>>,
\* or <<>> when t is none of HH:MM:SS[.f...], HH:MM, HHMMSS
IsoTime(t) ==
  IF /\ Len(t) >= 8
     /\ t[3] = ":" /\ t[6] = ":"
     /\ AllDigits(SubSeq(t, 1, 2)) /\ AllDigits(SubSeq(t, 4, 5))
     /\ AllDigits(SubSeq(t, 7, 8))
  THEN IF Len(t) = 8
       THEN <<Num(SubSeq(t, 1, 2)), Num(SubSeq(t, 4, 5)), Num(SubSeq(t, 7, 8)), 0>>
       ELSE IF Len(t) >= 10 /\ t[9] = "." /\ AllDigits(Drop(t, 9))
       THEN LET f == SubSeq(t, 10, IF Len(t) > 15 THEN 15 ELSE Len(t))
            IN  <<Num(SubSeq(t, 1, 2)), Num(SubSeq(t, 4, 5)), Num(SubSeq(t, 7, 8)),
                  Num(f) * Pow10(6 - Len(f))>>
       ELSE <<>>
  ELSE IF Len(t) = 5 /\ t[3] = ":" /\ AllDigits(SubSeq(t, 1, 2)) /\ AllDigits(SubSeq(t, 4, 5))
  THEN <<Num(SubSeq(t, 1, 2)), Num(SubSeq(t, 4, 5)), 0, 0>>
  ELSE IF Len(t) = 6 /\ AllDigits(t)
  THEN <<Num(SubSeq(t, 1, 2)), Num(SubSeq(t, 3, 4)), Num(SubSeq(t, 5, 6)), 0>>
  ELSE <<>>

\* datetime.fromisoformat(s), of Python 3.11 and later, on dates with an
\* optional time of day and no UTC offset; the result is naive (tzinfo None)
fromisoformat(s) ==
  LET n == IsoDateLen(s)
      y == Num(SubSeq(s, 1, 4))
      mo == IF n = 10 THEN Num(SubSeq(s, 6, 7)) ELSE Num(SubSeq(s, 5, 6))
      d == IF n = 10 THEN Num(SubSeq(s, 9, 10)) ELSE Num(SubSeq(s, 7, 8))
      t == IF Len(s) = n THEN <<0, 0, 0, 0>> ELSE IsoTime(Drop(s, n + 1))
  IN  IF n = 0 \/ t = <<>> THEN ErrR("Invalid isoformat string: ", s)
      ELSE IF \/ y < 1 \/ mo < 1 \/ mo > 12 \/ d < 1 \/ d > DaysInMonth(y, mo)
              \/ t[1] > 23 \/ t[2] > 59 \/ t[3] > 59
      THEN ErrR("out of range", <<>>)
      ELSE DateTime(y, mo, d, t[1], t[2], t[3], t[4], "None")

\* dt.replace(tzinfo=timezone.utc)
replace_tzinfo_utc(dt) == [dt EXCEPT !.tzinfo = "UTC"]

\* strftime's %Y: the C library's year, zero-padded to four digits or not
YearText(y) == IF padYear THEN Pad(y, 4) ELSE Decimal(y)

\* dt.strftime('%Y%m%d')
strftime_date(dt) == YearText(dt.year) \o Pad(dt.month, 2) \o Pad(dt.day, 2)

\* dt.strftime("%Y%m%dT%H%M%SZ")
dt_to_ics(dt) ==
  strftime_date(dt) \o <<"T">> \o Pad(dt.hour, 2) \o Pad(dt.minute, 2)
    \o Pad(dt.second, 2) \o <<"Z">>

----------------------------------------------------------------------------
(* parse_utcdatetime                                                       *)

\* "{utcdatetime:U"
WRAP_OPEN ==
  <<"{","u","t","c","d","a","t","e","t","i","m","e",":","U">>
\* ".000"
MS_SUFFIX ==
  <<".","0","0","0">>

\* the character class [0-9\-:T\.]
InClass(c) == IsDigit(c) \/ c \in {"-", ":", "T", "."}

\* the last index of the longest run of class characters from b (b - 1 if none)
RunEnd(s, b) ==
  LET stops == {j \in b..Len(s) : ~InClass(s[j])}
  IN  IF stops = {} THEN Len(s)
      ELSE (CHOOSE j \in stops : \A k \in stops : j <= k) - 1

MatchAt(s, i) ==
  /\ StartsWithAt(s, i, WRAP_OPEN)
  /\ LET b == i + Len(WRAP_OPEN)
         e == RunEnd(s, b)
     IN  e >= b /\ e + 1 <= Len(s) /\ s[e + 1] = "}"

\* re.search(r"\{utcdatetime:U([0-9\-:T\.]+)\}", s): group 1, None if no match
SearchWrapper(s) ==
  LET is == {i \in 1..Len(s) : MatchAt(s, i)}
  IN  IF is = {} THEN None
      ELSE LET i == CHOOSE i \in is : \A k \in is : i <= k
               b == i + Len(WRAP_OPEN)
           IN  SubSeq(s, b, RunEnd(s, b))

\* lines 16-21, shared by both entry points: trim ".000", parse, attach UTC
ParseWrapped(iso0) ==
  LET iso == IF EndsWith(iso0, MS_SUFFIX) THEN SubSeq(iso0, 1, Len(iso0) - 4) ELSE iso0
      r == fromisoformat(iso)
  IN  IF IsErr(r) THEN r ELSE replace_tzinfo_utc(r)

\* mutant: the plain-ISO fallback swallows the error and returns None
parse_utcdatetime_lenient(s) ==
  IF s = None THEN NoneR
  ELSE LET m == SearchWrapper(s)
       IN  IF m = None
           THEN LET r == fromisoformat(Replace(s, <<"Z">>, <<>>))
                IN  IF IsErr(r) THEN NoneR ELSE replace_tzinfo_utc(r)
           ELSE ParseWrapped(m)

\* mxl_to_ics_impl.parse_utcdatetime
parse_utcdatetime(s) ==
  IF s = None THEN NoneR
  ELSE LET m == SearchWrapper(s)
       IN  IF m = None
           THEN LET r == fromisoformat(Replace(s, <<"Z">>, <<>>))
                IN  IF IsErr(r) THEN ErrR("Unrecognized datetime format: ", s)
                    ELSE replace_tzinfo_utc(r)
           ELSE ParseWrapped(m)

\* the HTTP function's parse_utcdatetime: fromisoformat's error is not caught
http_parse_utcdatetime(s) ==
  IF s = None THEN NoneR
  ELSE LET m == SearchWrapper(s)
       IN  IF m = None
           THEN LET r == fromisoformat(Replace(s, <<"Z">>, <<>>))
                IN  IF IsErr(r) THEN r ELSE replace_tzinfo_utc(r)
           ELSE ParseWrapped(m)

\* the parser of entry point e
ParseFor(e, s) == IF e = "cli" THEN parse_utcdatetime(s) ELSE http_parse_utcdatetime(s)

----------------------------------------------------------------------------
(* build_rrule                                                             *)

\* "FREQ=WEEKLY"
R_FREQ_WEEKLY ==
  <<"F","R","E","Q","=","W","E","E","K","L","Y">>
\* "INTERVAL="
R_INTERVAL ==
  <<"I","N","T","E","R","V","A","L","=">>
\* "UNTIL="
R_UNTIL ==
  <<"U","N","T","I","L","=">>
\* "BYDAY="
R_BYDAY ==
  <<"B","Y","D","A","Y","=">>
\* "Weekly"
T_Weekly ==
  <<"W","e","e","k","l","y">>

\* no recurrence child (ev.find returns None)
NoRecur == [present |-> FALSE]
\* a recurrence element; an attribute that is not there is None
Recur(type, every, until, unitil, on) ==
  [present |-> TRUE, type |-> type, repeat_every |-> every,
   until_date |-> until, unitil_date |-> unitil, repeat_on |-> on]

dow_map ==
  << <<"S","U">>, <<"M","O">>, <<"T","U">>, <<"W","E">>,
     <<"T","H">>, <<"F","R">>, <<"S","A">> >>

\* [dow_map[i] for i, ch in enumerate(repeat_on) if ch == "1"]
RECURSIVE DaysFrom(_, _)
DaysFrom(repeat_on, i) ==
  IF i > Len(repeat_on) THEN <<>>
  ELSE (IF repeat_on[i] = "1" THEN <<dow_map[i]>> ELSE <<>>) \o DaysFrom(repeat_on, i + 1)

\* mutant: the mask is read with Monday at index 0
byday_monday_first(repeat_on) ==
  IF Truthy(repeat_on) /\ Len(repeat_on) = 7
  THEN LET days == DaysFrom(<<repeat_on[7]>> \o SubSeq(repeat_on, 1, 6), 1)
       IN  IF days # <<>> THEN Join(days, <<",">>) ELSE None
  ELSE None

\* lines 60-67: the BYDAY value, None when there is none
byday(repeat_on) ==
  IF Truthy(repeat_on) /\ Len(repeat_on) = 7
  THEN LET days == DaysFrom(repeat_on, 1)
       IN  IF days # <<>> THEN Join(days, <<",">>) ELSE None
  ELSE None

\* mutant: only until_date is read, the misspelled unitil_date is not
until_raw_primary_only(recur_el) == recur_el.until_date

\* recur_el.attrib.get("until_date") or recur_el.attrib.get("unitil_date")
until_raw(recur_el) == OrElse(recur_el.until_date, recur_el.unitil_date)

\* the clauses of lines 68-76 (32-41), joined, once until has been parsed;
\* the exception of the parser leaves build_rrule
rrule_clauses(interval, raw, bd, u_dt) ==
  IF IsErr(u_dt) THEN u_dt
  ELSE StrR(Join(<<R_FREQ_WEEKLY, R_INTERVAL \o interval>>
                 \o (IF Truthy(raw) THEN <<R_UNTIL \o dt_to_ics(u_dt)>> ELSE <<>>)
                 \o (IF Truthy(bd) THEN <<R_BYDAY \o bd>> ELSE <<>>),
                 <<";">>))

\* build_rrule as entry point e's module defines it (its own datetime parser)
build_rrule_for(e, recur_el) ==
  IF ~recur_el.present THEN NoneR
  ELSE IF recur_el.type = None THEN NoneR
  ELSE IF capitalize(recur_el.type) # T_Weekly THEN NoneR
  ELSE LET interval == IF recur_el.repeat_every = None THEN <<"1">>
                       ELSE recur_el.repeat_every
           raw == until_raw(recur_el)
       IN  rrule_clauses(interval, raw, byday(recur_el.repeat_on),
                         IF Truthy(raw) THEN ParseFor(e, raw) ELSE NoneR)

\* mxl_to_ics_impl.build_rrule
build_rrule(recur_el) == build_rrule_for("cli", recur_el)

\* the HTTP function's build_rrule
http_build_rrule(recur_el) == build_rrule_for("http", recur_el)

----------------------------------------------------------------------------
(* Function-level specifications: one call of one function                 *)

\* no conversion is running
NoPrev == [lines |-> <<>>, out |-> None, reads |-> <<>>, done |-> FALSE]
ConvIdle ==
  /\ entry = "none" /\ events = <<>> /\ idx = 0 /\ lines = <<>>
  /\ out = None /\ err = NoneR /\ clock = 0 /\ now = 0 /\ reads = <<>> /\ prev = NoPrev

\* all texts over alphabet A of length at most n
TextsUpTo(A, n) == UNION {[1..k -> A] : k \in 0..n}

(* ---- fold_ics_line ---- *)
MaxLineLen == 160

FoldPatterns == {Digits, <<"a", " ">>, <<"x", CR, LF, " ", "y", " ">>}
FoldInputs == {Cyclic(pat, n) : pat \in FoldPatterns, n \in 0..MaxLineLen}

FoldInit ==
  /\ pc = "call" /\ arg \in FoldInputs /\ ret = NoneR
  /\ padYear \in BOOLEAN /\ ConvIdle

\* ret.s is the returned text; ret.parts is the list the function joined
FoldCall ==
  /\ pc = "call"
  /\ pc' = "return"
  /\ ret' = [tag |-> "str", s |-> fold_ics_line(arg), parts |-> fold_parts(arg)]
  /\ UNCHANGED <<arg, padYear, convVars>>

FoldNext == FoldCall
SpecFold == FoldInit /\ [][FoldNext]_vars

NoNewline(s) == \A i \in 1..Len(s) : s[i] # CR /\ s[i] # LF

\* the segments put together again: the first, then every continuation
\* without its leading character
RECURSIVE Unsegment(_)
Unsegment(parts) ==
  IF parts = <<>> THEN <<>>
  ELSE IF Len(parts) = 1 THEN parts[1]
  ELSE Unsegment(SubSeq(parts, 1, Len(parts) - 1)) \o Tail(parts[Len(parts)])

\* C5: fold returns a line of at most 75 characters unchanged; otherwise it
\* returns segments joined by CRLF, each at most 75 characters long
\* (a continuation counted with its leading space), and the segments
\* without the CRLF + space fold artifacts give back the original line.
\* For a line that holds no line break itself, the segments are the
\* CRLF-delimited lines of the returned text.
C5_FoldBoundedAndReversible ==
  pc = "return" =>
    /\ (Len(arg) <= max_len => ret.s = arg)
    /\ ret.s = Join(ret.parts, CRLF)
    /\ \A i \in 1..Len(ret.parts) : Len(ret.parts[i]) <= max_len
    /\ \A i \in 2..Len(ret.parts) : ret.parts[i][1] = " "
    /\ Unsegment(ret.parts) = arg
    /\ (NoNewline(arg) =>
          /\ Split(ret.s, CRLF) = ret.parts
          /\ Replace(ret.s, <<CR, LF, " ">>, <<>>) = arg)

C5_Witness ==
  /\ pc = "return"
  /\ NoNewline(arg)
  /\ Len(arg) > 2 * max_len
  /\ Len(ret.parts) = 3

(* ---- ics_escape ---- *)
MaxTextLen == 4

EscapeAlphabet == {"a", "<", ">", BS, ";", ",", CR, LF}
EscapeInputs == {None} \cup TextsUpTo(EscapeAlphabet, MaxTextLen)

EscapeInit ==
  /\ pc = "call" /\ arg \in EscapeInputs /\ ret = NoneR
  /\ padYear \in BOOLEAN /\ ConvIdle

EscapeCall ==
  /\ pc = "call"
  /\ pc' = "return"
  /\ ret' = StrR(ics_escape(arg))
  /\ UNCHANGED <<arg, padYear, convVars>>

EscapeNext == EscapeCall
SpecEscape == EscapeInit /\ [][EscapeNext]_vars

\* index k of s lies in a tag-like substring: one that opens with "<",
\* closes with ">" and has in between at least one character, none a ">"
InTag(s, k) ==
  \E i \in 1..k : \E j \in k..Len(s) :
    /\ s[i] = "<" /\ s[j] = ">" /\ j >= i + 2
    /\ \A m \in (i + 1)..(j - 1) : s[m] # ">"

\* the characters of s from index i on that are in no tag-like substring
RECURSIVE OutsideTagsFrom(_, _)
OutsideTagsFrom(s, i) ==
  IF i > Len(s) THEN <<>>
  ELSE (IF InTag(s, i) THEN <<>> ELSE <<s[i]>>) \o OutsideTagsFrom(s, i + 1)

\* one pass over t: each backslash doubled, each semicolon and comma given
\* one backslash, each CRLF and each lone LF turned into backslash-n
RECURSIVE OnePassFrom(_, _)
OnePassFrom(t, i) ==
  IF i > Len(t) THEN <<>>
  ELSE IF t[i] = BS THEN <<BS, BS>> \o OnePassFrom(t, i + 1)
  ELSE IF t[i] \in {";", ","} THEN <<BS, t[i]>> \o OnePassFrom(t, i + 1)
  ELSE IF t[i] = CR /\ i < Len(t) /\ t[i + 1] = LF THEN <<BS, "n">> \o OnePassFrom(t, i + 2)
  ELSE IF t[i] = LF THEN <<BS, "n">> \o OnePassFrom(t, i + 1)
  ELSE <<t[i]>> \o OnePassFrom(t, i + 1)

\* C8: escape(s) is s without its tag-like substrings, with every backslash
\* doubled, every semicolon and comma prefixed by exactly one backslash (an
\* added backslash is never doubled) and every CRLF and lone LF replaced by
\* backslash-n; absent or empty input gives the empty text; text without
\* tag, backslash, semicolon, comma or newline comes back unchanged.
C8_EscapeIsOnePass ==
  pc = "return" =>
    /\ ret.tag = "str"
    /\ (arg = None \/ arg = <<>> => ret.s = <<>>)
    /\ (arg # None => ret.s = OnePassFrom(OutsideTagsFrom(arg, 1), 1))
    /\ (arg # None /\ (\A i \in 1..Len(arg) : arg[i] \notin {"<", ">", BS, ";", ",", LF})
          => ret.s = arg)

C8_Witness ==
  /\ pc = "return"
  /\ arg = <<BS, ";", ",", LF>>
  /\ ret.s = <<BS, BS, BS, ";", BS, ",", BS, "n">>

(* ---- build_rrule ---- *)
\* "{utcdatetime:U2022-08-01T00:00:00.000}"
D_WRAPPED_UNTIL ==
  <<"{","u","t","c","d","a","t","e","t","i","m","e",":","U","2","0","2","2","-","0","8","-","0","1","T","0","0",":","0","0",":","0","0",".","0","0","0","}">>
\* "2022-12-24T23:59:59Z"
D_PLAIN_UNTIL ==
  <<"2","0","2","2","-","1","2","-","2","4","T","2","3",":","5","9",":","5","9","Z">>
\* "not-a-date"
D_BAD ==
  <<"n","o","t","-","a","-","d","a","t","e">>
\* "{utcdatetime:U2022-13-45T00:00:00}"
D_BAD_WRAPPED ==
  <<"{","u","t","c","d","a","t","e","t","i","m","e",":","U","2","0","2","2","-","1","3","-","4","5","T","0","0",":","0","0",":","0","0","}">>
\* "weekly"
T_weekly ==
  <<"w","e","e","k","l","y">>
\* "WEEKLY"
T_WEEKLY ==
  <<"W","E","E","K","L","Y">>
\* "Monthly"
T_Monthly ==
  <<"M","o","n","t","h","l","y">>

RecurTypes == {None, <<>>, T_weekly, T_Weekly, T_WEEKLY, T_Monthly}
RecurEverys == {None, <<>>, <<"2">>}
RecurUntils == {None, <<>>, D_WRAPPED_UNTIL, D_BAD, D_BAD_WRAPPED}
RecurUnitils == {None, D_PLAIN_UNTIL}
\* every mask of seven 0/1 characters, and masks that are absent, empty, of
\* another length, or hold another character
RecurMasks ==
  [1..7 -> {"0", "1"}]
    \cup {None, <<>>, <<"1","1","1","1","1","1">>, <<"0","1","0","0","1","0","0","1">>,
          <<"1","x","1","0","0","1","0">>}

RecurInputs ==
  {NoRecur} \cup
  {Recur(t, e, u, m, on) : t \in RecurTypes, e \in RecurEverys, u \in RecurUntils,
                           m \in RecurUnitils, on \in RecurMasks}

RruleInit ==
  /\ pc = "call" /\ arg \in RecurInputs /\ ret = NoneR
  /\ padYear \in BOOLEAN /\ ConvIdle

RruleCall ==
  /\ pc = "call"
  /\ pc' = "return"
  /\ ret' = build_rrule(arg)
  /\ UNCHANGED <<arg, padYear, convVars>>

HttpRruleCall ==
  /\ pc = "call"
  /\ pc' = "return_http"
  /\ ret' = http_build_rrule(arg)
  /\ UNCHANGED <<arg, padYear, convVars>>

RruleNext == RruleCall \/ HttpRruleCall
SpecRrule == RruleInit /\ [][RruleNext]_vars

Returned == pc \in {"return", "return_http"}

\* the type attribute is "weekly" in some letter case
IsWeekly(el) == el.present /\ el.type # None /\ lower(el.type) = T_weekly

\* the until text the rule is built from: until_date, or unitil_date when
\* until_date is absent or empty; None when neither is there
ChosenUntil(el) ==
  IF el.until_date # None /\ el.until_date # <<>> THEN el.until_date
  ELSE IF el.unitil_date # None /\ el.unitil_date # <<>> THEN el.unitil_date
  ELSE None

\* "20220801T000000Z"
ICS_WRAPPED_UNTIL ==
  <<"2","0","2","2","0","8","0","1","T","0","0","0","0","0","0","Z">>
\* "20221224T235959Z"
ICS_PLAIN_UNTIL ==
  <<"2","0","2","2","1","2","2","4","T","2","3","5","9","5","9","Z">>

\* the enumerated until texts that are datetimes, as YYYYMMDDTHHMMSSZ
UntilAsIcs(raw) ==
  IF raw = D_WRAPPED_UNTIL THEN ICS_WRAPPED_UNTIL
  ELSE IF raw = D_PLAIN_UNTIL THEN ICS_PLAIN_UNTIL
  ELSE None

\* the clauses of a rule that open with prefix p
ClausesWith(rule, p) == SelectSeq(Split(rule, <<";">>), LAMBDA c : StartsWith(c, p))

ActiveDays(mask) ==
  IF mask # None /\ Len(mask) = 7 THEN {i \in 1..7 : mask[i] = "1"} ELSE {}

\* C6: no recurrence element, or a type that is not "weekly" in any letter
\* case, gives no rule and no error; a weekly type gives FREQ=WEEKLY, then
\* INTERVAL=<repeat_every, 1 when absent>, then UNTIL=<timestamp> iff an
\* until timestamp resolves from until_date or else unitil_date, then
\* BYDAY=<days> iff the mask has an active day, joined by semicolons.  (An
\* until text that is no datetime raises instead of giving a rule.)
C6_RruleShape ==
  Returned =>
    /\ (~IsWeekly(arg) => ret = NoneR)
    /\ (IsWeekly(arg) /\ UntilAsIcs(ChosenUntil(arg)) = None /\ ChosenUntil(arg) # None
          => IsErr(ret))
    /\ (IsWeekly(arg) /\ (ChosenUntil(arg) = None \/ UntilAsIcs(ChosenUntil(arg)) # None) =>
          /\ ret.tag = "str"
          /\ LET clauses == Split(ret.s, <<";">>)
                 hasUntil == ChosenUntil(arg) # None
                 hasByDay == ActiveDays(arg.repeat_on) # {}
             IN  /\ Len(clauses) = 2 + (IF hasUntil THEN 1 ELSE 0) + (IF hasByDay THEN 1 ELSE 0)
                 /\ clauses[1] = R_FREQ_WEEKLY
                 /\ clauses[2] = R_INTERVAL \o (IF arg.repeat_every = None THEN <<"1">>
                                                ELSE arg.repeat_every)
                 /\ (hasUntil => clauses[3] = R_UNTIL \o UntilAsIcs(ChosenUntil(arg)))
                 /\ (hasByDay => StartsWith(clauses[Len(clauses)], R_BYDAY)))

\* a weekly rule whose UNTIL comes from the misspelled unitil_date
C6_Witness ==
  /\ pc = "return"
  /\ arg.present /\ arg.type = T_WEEKLY /\ arg.repeat_every = None
  /\ arg.until_date = None /\ arg.unitil_date = D_PLAIN_UNTIL
  /\ ActiveDays(arg.repeat_on) # {}
  /\ ret.tag = "str"
  /\ Len(ClausesWith(ret.s, R_UNTIL)) = 1
  /\ Len(ClausesWith(ret.s, R_BYDAY)) = 1

\* the day codes in the order of the mask's indices, index 0 = Sunday
WeekOrder == << <<"S","U">>, <<"M","O">>, <<"T","U">>, <<"W","E">>,
                <<"T","H">>, <<"F","R">>, <<"S","A">> >>

\* C7: for a 7-character mask of a weekly recurrence the BYDAY clause lists
\* exactly the days whose mask character is '1', comma-joined in the order
\* SU,MO,TU,WE,TH,FR,SA, none repeated or missing; a mask with no '1', or of
\* a length other than 7, gives no BYDAY clause.
C7_ByDayMatchesMask ==
  Returned /\ IsWeekly(arg) /\ ret.tag = "str" =>
    LET act == ActiveDays(arg.repeat_on)
        bys == ClausesWith(ret.s, R_BYDAY)
    IN  IF act = {} THEN bys = <<>>
        ELSE /\ Len(bys) = 1
             /\ LET codes == Split(Drop(bys[1], Len(R_BYDAY)), <<",">>)
                IN  /\ Len(codes) = Cardinality(act)
                    /\ \A k \in 1..Len(codes) :
                         \E i \in act :
                           /\ codes[k] = WeekOrder[i]
                           /\ Cardinality({j \in act : j < i}) = k - 1

\* the mask "0010010" gives BYDAY=TU,FR
C7_Witness ==
  /\ pc = "return"
  /\ IsWeekly(arg)
  /\ arg.repeat_on = <<"0","0","1","0","0","1","0">>
  /\ ret.tag = "str"
  /\ ClausesWith(ret.s, R_BYDAY) = << R_BYDAY \o <<"T","U",",","F","R">> >>

(* ---- parse_utcdatetime and dt_to_ics, round trip ---- *)

DateYears == {999, 2022, 2024}
DateMonths == {1, 2, 12}
DateDays == {1, 29, 31}
DateHours == {0, 19, 23}
DateMinutes == {0, 59}
DateSeconds == {0, 59}
DateFields ==
  DateYears \X DateMonths \X DateDays \X DateHours \X DateMinutes \X DateSeconds

\* {utcdatetime:U<YYYY-MM-DDTHH:MM:SS>[.000]} of fields f
WrappedText(f, ms) ==
  WRAP_OPEN \o Pad(f[1], 4) \o <<"-">> \o Pad(f[2], 2) \o <<"-">> \o Pad(f[3], 2)
    \o <<"T">> \o Pad(f[4], 2) \o <<":">> \o Pad(f[5], 2) \o <<":">> \o Pad(f[6], 2)
    \o (IF ms THEN MS_SUFFIX ELSE <<>>) \o <<"}">>

\* the input text and, for a wrapped datetime, the fields it was written from
DateInputs ==
  {[text |-> WrappedText(f, ms), want |-> f] : f \in DateFields, ms \in BOOLEAN}
    \cup {[text |-> t, want |-> <<>>] : t \in {None, D_BAD, D_PLAIN_UNTIL}}

DateInit ==
  /\ pc = "call" /\ arg \in DateInputs /\ ret = <<>>
  /\ padYear \in BOOLEAN /\ ConvIdle

\* parse_utcdatetime(s)
DateParse ==
  /\ pc = "call"
  /\ pc' = "parsed"
  /\ ret' = <<parse_utcdatetime(arg.text)>>
  /\ UNCHANGED <<arg, padYear, convVars>>

\* dt_to_ics of the parsed value
DateRender ==
  /\ pc = "parsed" /\ ret[1].tag = "dt"
  /\ pc' = "rendered"
  /\ ret' = Append(ret, StrR(dt_to_ics(ret[1])))
  /\ UNCHANGED <<arg, padYear, convVars>>

\* parse_utcdatetime of the rendered text (the plain-ISO branch)
DateReparse ==
  /\ pc = "rendered"
  /\ pc' = "reparsed"
  /\ ret' = Append(ret, parse_utcdatetime(ret[2].s))
  /\ UNCHANGED <<arg, padYear, convVars>>

\* dt_to_ics of the value parsed again
DateRerender ==
  /\ pc = "reparsed" /\ ret[3].tag = "dt"
  /\ pc' = "rerendered"
  /\ ret' = Append(ret, StrR(dt_to_ics(ret[3])))
  /\ UNCHANGED <<arg, padYear, convVars>>

DateNext == DateParse \/ DateRender \/ DateReparse \/ DateRerender
SpecDate == DateInit /\ [][DateNext]_vars

\* the wrapped text holds a date of the calendar
ValidWrapped(a) == a.want # <<>> /\ a.want[3] <= DaysInMonth(a.want[1], a.want[2])

\* C10: a valid wrapped datetime parses to its own date and time-of-day
\* fields with UTC attached; an absent input gives no value; and the
\* rendered text, parsed again as plain ISO and rendered again, is the same
\* text.
C10_RoundTripStable ==
  /\ (pc # "call" /\ arg.text = None => ret[1] = NoneR)
  /\ (pc # "call" /\ ValidWrapped(arg) =>
        ret[1] = DateTime(arg.want[1], arg.want[2], arg.want[3], arg.want[4],
                          arg.want[5], arg.want[6], 0, "UTC"))
  /\ (pc = "reparsed" /\ ValidWrapped(arg) => ret[3] = ret[1])
  /\ (pc = "rerendered" => ret[4] = ret[2])

----------------------------------------------------------------------------
(* The conversion: mxl_to_ics (command line) and convert (HTTP)            *)

\* "BEGIN:VCALENDAR"
L_BEGIN_VCALENDAR ==
  <<"B","E","G","I","N",":","V","C","A","L","E","N","D","A","R">>
\* "PRODID:-//mxl-to-ics//saskpolytech//EN"
L_PRODID ==
  <<"P","R","O","D","I","D",":","-","/","/","m","x","l","-","t","o","-","i","c","s","/","/","s","a","s","k","p","o","l","y","t","e","c","h","/","/","E","N">>
\* "VERSION:2.0"
L_VERSION ==
  <<"V","E","R","S","I","O","N",":","2",".","0">>
\* "CALSCALE:GREGORIAN"
L_CALSCALE ==
  <<"C","A","L","S","C","A","L","E",":","G","R","E","G","O","R","I","A","N">>
\* "METHOD:PUBLISH"
L_METHOD ==
  <<"M","E","T","H","O","D",":","P","U","B","L","I","S","H">>
\* "BEGIN:VEVENT"
L_BEGIN_VEVENT ==
  <<"B","E","G","I","N",":","V","E","V","E","N","T">>
\* "END:VEVENT"
L_END_VEVENT ==
  <<"E","N","D",":","V","E","V","E","N","T">>
\* "END:VCALENDAR"
L_END_VCALENDAR ==
  <<"E","N","D",":","V","C","A","L","E","N","D","A","R">>
\* "DTSTART;VALUE=DATE:"
P_DTSTART_DATE ==
  <<"D","T","S","T","A","R","T",";","V","A","L","U","E","=","D","A","T","E",":">>
\* "DTSTART:"
P_DTSTART ==
  <<"D","T","S","T","A","R","T",":">>
\* "DTEND;VALUE=DATE:"
P_DTEND_DATE ==
  <<"D","T","E","N","D",";","V","A","L","U","E","=","D","A","T","E",":">>
\* "DTEND:"
P_DTEND ==
  <<"D","T","E","N","D",":">>
\* "UID:"
P_UID ==
  <<"U","I","D",":">>
\* "@mxl2ics"
UID_SUFFIX ==
  <<"@","m","x","l","2","i","c","s">>
\* "SUMMARY:"
P_SUMMARY ==
  <<"S","U","M","M","A","R","Y",":">>
\* "DESCRIPTION:"
P_DESCRIPTION ==
  <<"D","E","S","C","R","I","P","T","I","O","N",":">>
\* "LOCATION:"
P_LOCATION ==
  <<"L","O","C","A","T","I","O","N",":">>
\* "RRULE:"
P_RRULE ==
  <<"R","R","U","L","E",":">>
\* "DTSTAMP:"
P_DTSTAMP ==
  <<"D","T","S","T","A","M","P",":">>
\* "true"
T_true ==
  <<"t","r","u","e">>
\* "False"
T_False ==
  <<"F","a","l","s","e">>

\* lines 91-95 / 45-46
HeaderLines == <<L_BEGIN_VCALENDAR, L_PRODID, L_VERSION, L_CALSCALE, L_METHOD>>

\* an event element: its id and is_allday_event attributes and the text of
\* its children; None for an attribute or child that is not there
Event(id, allday, title, desc, start, end, loc, recur) ==
  [id |-> id, is_allday_event |-> allday, title |-> title, description |-> desc,
   start_date |-> start, end_date |-> end, location |-> loc, recurrence |-> recur]

\* datetime.now(timezone.utc) at clock value t
NowDT(t) == DateTime(2026, 11, 3, 0, 0, t, 0, "UTC")

\* (ev.findtext(...) or "")
OrEmpty(s) == IF s = None THEN <<>> ELSE s

\* mutant: the attribute is compared as written, without lower()
is_all_day_case_sensitive(ev) ==
  (IF ev.is_allday_event = None THEN T_False ELSE ev.is_allday_event) = T_true

\* ev.attrib.get("is_allday_event","False").lower() == "true"
is_all_day(ev) ==
  lower(IF ev.is_allday_event = None THEN T_False ELSE ev.is_allday_event) = T_true

\* mutant: the current time always goes into the UID
uid_time_always_now(start_dt, now_dt) == now_dt

\* start_dt or datetime.now(timezone.utc)
uid_time(start_dt, now_dt) == IF start_dt.tag = "dt" THEN start_dt ELSE now_dt

\* make_uid / the f-string of convert
make_uid(event_id, start_dt) ==
  event_id \o <<"-">> \o dt_to_ics(start_dt) \o UID_SUFFIX

\* fold_ics_line where mxl_to_ics folds while appending; convert does not
FoldFor(e, line) == IF e = "cli" THEN fold_ics_line(line) ELSE line

\* the lines of one event from BEGIN:VEVENT to LOCATION (lines 108-127 / 59-68)
EventHead(e, ev, start_dt, end_dt, tUid) ==
  LET title == strip(OrEmpty(ev.title))
      desc == OrEmpty(ev.description)
      loc == strip(OrEmpty(ev.location))
      uid == make_uid(IF ev.id = None THEN <<"x">> ELSE ev.id,
                      uid_time(start_dt, NowDT(tUid)))
  IN  <<L_BEGIN_VEVENT>>
        \o (IF start_dt.tag = "dt"
            THEN IF is_all_day(ev) THEN <<P_DTSTART_DATE \o strftime_date(start_dt)>>
                 ELSE <<P_DTSTART \o dt_to_ics(start_dt)>>
            ELSE <<>>)
        \o (IF end_dt.tag = "dt"
            THEN IF is_all_day(ev) THEN <<P_DTEND_DATE \o strftime_date(end_dt)>>
                 ELSE <<P_DTEND \o dt_to_ics(end_dt)>>
            ELSE <<>>)
        \o <<P_UID \o uid>>
        \o <<FoldFor(e, P_SUMMARY \o ics_escape(title))>>
        \o (IF desc # <<>> THEN <<FoldFor(e, P_DESCRIPTION \o ics_escape(desc))>> ELSE <<>>)
        \o (IF loc # <<>> THEN <<FoldFor(e, P_LOCATION \o ics_escape(loc))>> ELSE <<>>)

\* the rest of the loop body after LOCATION (lines 128-133 / 69-72): the
\* RRULE line if build_rrule returned one, DTSTAMP, END:VEVENT
EventTail(head, rrule, tStamp) ==
  IF IsErr(rrule) THEN [lines |-> head, err |-> rrule]
  ELSE [lines |-> head
                    \o (IF rrule.tag = "str" THEN <<P_RRULE \o rrule.s>> ELSE <<>>)
                    \o <<P_DTSTAMP \o dt_to_ics(NowDT(tStamp)), L_END_VEVENT>>,
        err |-> NoneR]

\* the loop body once start and end have been parsed, in that order
EventParsed(e, ev, start_dt, end_dt, tUid, tStamp) ==
  IF IsErr(start_dt) THEN [lines |-> <<>>, err |-> start_dt]
  ELSE IF IsErr(end_dt) THEN [lines |-> <<>>, err |-> end_dt]
  ELSE EventTail(EventHead(e, ev, start_dt, end_dt, tUid),
                 build_rrule_for(e, ev.recurrence), tStamp)

\* one pass of the loop body for event ev: the lines it appended and the
\* exception that left it, if any.  tUid is the clock read for the UID (used
\* when start is absent), tStamp the time that goes into DTSTAMP.
EventPass(e, ev, tUid, tStamp) ==
  EventParsed(e, ev,
              IF Truthy(ev.start_date) THEN ParseFor(e, ev.start_date) ELSE NoneR,
              IF Truthy(ev.end_date) THEN ParseFor(e, ev.end_date) ELSE NoneR,
              tUid, tStamp)

\* mutant: the events are walked last to first
next_event_reversed(evs, i) == evs[Len(evs) - i]

\* the element the loop takes after i events: document order
next_event(evs, i) == evs[i + 1]

\* "\r\n".join([fold_ics_line(line) for line in lines]) + "\r\n"   (mxl_to_ics)
\* "\r\n".join(lines) + "\r\n"                                     (convert)
FinalText(e, ls) ==
  Join([i \in 1..Len(ls) |-> IF e = "cli" THEN fold_ics_line(ls[i]) ELSE ls[i]], CRLF)
    \o CRLF

(* ---- inputs ---- *)
MaxEvents == 2
MaxTime == 2

\* "{utcdatetime:U2022-07-14T19:00:00.000}"
D_WRAPPED_START ==
  <<"{","u","t","c","d","a","t","e","t","i","m","e",":","U","2","0","2","2","-","0","7","-","1","4","T","1","9",":","0","0",":","0","0",".","0","0","0","}">>
\* "2022-07-15T00:00:00Z"
D_PLAIN_END ==
  <<"2","0","2","2","-","0","7","-","1","5","T","0","0",":","0","0",":","0","0","Z">>
\* "True"
T_True ==
  <<"T","r","u","e">>
\* "TRUE"
T_TRUE ==
  <<"T","R","U","E">>
\* "false"
T_false ==
  <<"f","a","l","s","e">>
\* "Intro <b>Class</b>"
TITLE_TAGGED ==
  <<"I","n","t","r","o"," ","<","b",">","C","l","a","s","s","<","/","b",">">>

\* a title of 80 characters, some of them to be escaped
TITLE_LONG == Cyclic(<<"L", "o", "n", "g", ";", " ", "t", "i", "t", "l", "e", ",">>, 80)
DESC_SPECIAL == <<"a", ",", "b", LF, "c">>
LOC_PADDED == <<" ", "R", "1", " ">>

RecurWeekly == Recur(T_Weekly, <<"2">>, D_WRAPPED_UNTIL, None, <<"0","0","1","0","0","1","0">>)
RecurMonthlyBadUntil == Recur(T_Monthly, None, D_BAD, None, None)
RecurWeeklyBadUntil == Recur(T_weekly, None, None, D_BAD_WRAPPED, None)

\* single events: every combination of these values of the fields
SingleEvents ==
  {Event(<<"7">>, ad, ti, de, st, en, lo, re) :
     ad \in {None, T_TRUE}, ti \in {None, TITLE_LONG}, de \in {None, DESC_SPECIAL},
     st \in {None, D_WRAPPED_START, D_BAD}, en \in {None, D_PLAIN_END},
     lo \in {None, LOC_PADDED},
     re \in {NoRecur, RecurWeekly, RecurMonthlyBadUntil, RecurWeeklyBadUntil}}

\* the events documents of several events are made of
CoreEvents ==
  { Event(<<"7">>, T_False, TITLE_TAGGED, None, D_WRAPPED_START, None, None, NoRecur),
    Event(<<"8">>, T_false, None, DESC_SPECIAL, None, None, LOC_PADDED, RecurWeekly),
    Event(None, T_True, TITLE_LONG, <<>>, D_WRAPPED_START, D_PLAIN_END, <<" ">>,
          RecurMonthlyBadUntil),
    Event(<<"9">>, None, TITLE_TAGGED, None, D_BAD, None, None, NoRecur),
    Event(None, None, <<>>, <<" ">>, <<>>, D_BAD_WRAPPED, None, NoRecur),
    Event(<<"8">>, None, TITLE_TAGGED, None, D_WRAPPED_START, None, None,
          RecurWeeklyBadUntil) }

Documents ==
  {<<e>> : e \in SingleEvents} \cup UNION {[1..n -> CoreEvents] : n \in 0..MaxEvents}

(* ---- the run ---- *)

\* the values a read of the clock can give after c was read (0: none yet)
Times(c) == (IF c = 0 THEN 1 ELSE c)..MaxTime

Init ==
  /\ pc = "start" /\ arg = None /\ ret = NoneR
  /\ padYear \in BOOLEAN
  /\ entry \in {"cli", "http"}
  /\ events \in Documents
  /\ idx = 0 /\ lines = <<>> /\ out = None /\ err = NoneR
  /\ clock = 0 /\ now = 0 /\ reads = <<>> /\ prev = NoPrev

\* lines 88-95 of mxl_to_ics; lines 44-47 of convert, which reads `now` here
Begin ==
  /\ pc = "start"
  /\ pc' = "loop"
  /\ lines' = HeaderLines
  /\ IF entry = "http"
     THEN \E t \in Times(clock) : clock' = t /\ now' = t
     ELSE UNCHANGED <<clock, now>>
  /\ UNCHANGED <<arg, ret, padYear, entry, events, idx, out, err, reads, prev>>

\* one pass of the loop: lines 97-133 of mxl_to_ics, 48-72 of convert
ProcessEvent ==
  /\ pc = "loop" /\ idx < Len(events)
  /\ LET ev == next_event(events, idx)
         readsUid == ~Truthy(ev.start_date)
     IN  \E tUid \in (IF readsUid THEN Times(clock) ELSE {clock}) :
         \E tStamp \in (IF entry = "cli" THEN Times(tUid) ELSE {now}) :
           \E r \in {EventPass(entry, ev, tUid, tStamp)} :
               /\ lines' = lines \o r.lines
               /\ IF IsErr(r.err)
                  THEN /\ pc' = "failed"
                       /\ err' = r.err
                       /\ clock' = IF r.lines = <<>> THEN clock ELSE tUid
                       /\ UNCHANGED <<idx, reads>>
                  ELSE /\ pc' = "loop"
                       /\ idx' = idx + 1
                       /\ clock' = IF entry = "cli" THEN tStamp ELSE tUid
                       /\ reads' = Append(reads, [uid |-> IF readsUid THEN tUid ELSE 0,
                                                  stamp |-> tStamp])
                       /\ UNCHANGED err
  /\ UNCHANGED <<arg, ret, padYear, entry, events, out, now, prev>>

\* lines 135-139 of mxl_to_ics, 73-74 of convert: the document is written
\* (returned) only here
Finish ==
  /\ pc = "loop" /\ idx = Len(events)
  /\ pc' = "done"
  /\ lines' = Append(lines, L_END_VCALENDAR)
  /\ out' = FinalText(entry, lines')
  /\ UNCHANGED <<arg, ret, padYear, entry, events, idx, err, clock, now, reads, prev>>

\* the same input is converted a second time, later
Again ==
  /\ pc = "done" /\ ~prev.done
  /\ prev' = [lines |-> lines, out |-> out, reads |-> reads, done |-> TRUE]
  /\ pc' = "start"
  /\ idx' = 0 /\ lines' = <<>> /\ out' = None /\ reads' = <<>> /\ now' = 0
  /\ UNCHANGED <<arg, ret, padYear, entry, events, err, clock>>

Next == Begin \/ ProcessEvent \/ Finish \/ Again
Spec == Init /\ [][Next]_vars

----------------------------------------------------------------------------
(* Properties of the conversion                                            *)

\* the enumerated date texts that match neither the wrapper nor plain ISO
Unmatched == {D_BAD}
\* the enumerated date texts no datetime can be read from
Unparseable == {D_BAD, D_BAD_WRAPPED}

HasText(s) == s # None /\ s # <<>>

\* the first date text of ev, in the order start, end, until of a weekly
\* recurrence, that no datetime can be read from; None when there is none
OffendingText(ev) ==
  IF ev.start_date \in Unparseable THEN ev.start_date
  ELSE IF ev.end_date \in Unparseable THEN ev.end_date
  ELSE IF IsWeekly(ev.recurrence) /\ ChosenUntil(ev.recurrence) \in Unparseable
  THEN ChosenUntil(ev.recurrence)
  ELSE None

\* the until text of a recurrence element of any type
AnyUntil(el) == IF el.present THEN ChosenUntil(el) ELSE None

\* C1 as stated: whenever the start, the end or the recurrence until date of
\* any event matches neither format, the conversion does not complete.
C1_AnyBadDateAborts ==
  pc = "done" =>
    \A k \in 1..Len(events) :
      /\ events[k].start_date \notin Unmatched
      /\ events[k].end_date \notin Unmatched
      /\ AnyUntil(events[k].recurrence) \notin Unmatched

\* C1, amended: the until date counts only for a weekly recurrence.  When the
\* start or end of an event, or the until text a weekly rule is built from, is
\* non-empty and unparseable, the loop never gets past that event (it is not
\* skipped, not defaulted), the conversion ends failed with an error that
\* names the text when the text matches neither format, and no document is
\* ever written; a document exists only after every event has been converted.
C1_BadDateAborts ==
  /\ \A k \in 1..idx : OffendingText(events[k]) = None
  /\ (pc = "done" => \A k \in 1..Len(events) : OffendingText(events[k]) = None)
  /\ (out # None => pc = "done" /\ idx = Len(events))
  /\ (pc = "failed" =>
        /\ out = None
        /\ idx < Len(events)
        /\ OffendingText(events[idx + 1]) # None
        /\ IsErr(err)
        /\ (OffendingText(events[idx + 1]) \in Unmatched
              => err.names = OffendingText(events[idx + 1])))

\* the second of two events has the malformed start "not-a-date"
C1_Witness ==
  /\ pc = "failed" /\ Len(events) = 2 /\ idx = 1
  /\ events[2].start_date = D_BAD
  /\ out = None

\* "20220714T190000Z"
ICS_WRAPPED_START ==
  <<"2","0","2","2","0","7","1","4","T","1","9","0","0","0","0","Z">>
\* "20220714"
DATE_WRAPPED_START ==
  <<"2","0","2","2","0","7","1","4">>
\* "20220715T000000Z"
ICS_PLAIN_END ==
  <<"2","0","2","2","0","7","1","5","T","0","0","0","0","0","0","Z">>
\* "20220715"
DATE_PLAIN_END ==
  <<"2","0","2","2","0","7","1","5">>

\* the enumerated start and end texts that are datetimes, in both forms
AsIcs(raw) ==
  IF raw = D_WRAPPED_START THEN ICS_WRAPPED_START
  ELSE IF raw = D_PLAIN_END THEN ICS_PLAIN_END
  ELSE None
AsDate(raw) ==
  IF raw = D_WRAPPED_START THEN DATE_WRAPPED_START
  ELSE IF raw = D_PLAIN_END THEN DATE_PLAIN_END
  ELSE None

\* is_allday_event is "true" in some letter case
SaysAllDay(ev) == ev.is_allday_event \in {T_true, T_True, T_TRUE}

Blank(s) == \A i \in 1..Len(s) : s[i] = " "

\* what a line must be: the whole text t, or a line that opens with t
Whole(t) == [text |-> t, whole |-> TRUE]
Opens(t) == [text |-> t, whole |-> FALSE]
Fits(line, sh) == IF sh.whole THEN line = sh.text ELSE StartsWith(line, sh.text)

\* the block of ev, line by line
BlockShape(ev) ==
  <<Whole(L_BEGIN_VEVENT)>>
    \o (IF HasText(ev.start_date)
        THEN <<Whole(IF SaysAllDay(ev) THEN P_DTSTART_DATE \o AsDate(ev.start_date)
                     ELSE P_DTSTART \o AsIcs(ev.start_date))>>
        ELSE <<>>)
    \o (IF HasText(ev.end_date)
        THEN <<Whole(IF SaysAllDay(ev) THEN P_DTEND_DATE \o AsDate(ev.end_date)
                     ELSE P_DTEND \o AsIcs(ev.end_date))>>
        ELSE <<>>)
    \o <<Opens(P_UID)>>
    \o <<IF ev.title = None \/ Blank(ev.title) THEN Whole(P_SUMMARY) ELSE Opens(P_SUMMARY)>>
    \o (IF HasText(ev.description) THEN <<Opens(P_DESCRIPTION)>> ELSE <<>>)
    \o (IF ev.location # None /\ ~Blank(ev.location) THEN <<Opens(P_LOCATION)>> ELSE <<>>)
    \o (IF IsWeekly(ev.recurrence) THEN <<Opens(P_RRULE)>> ELSE <<>>)
    \o <<Opens(P_DTSTAMP), Whole(L_END_VEVENT)>>

\* the blocks of the first k events, one after the other
RECURSIVE ShapeOf(_, _)
ShapeOf(evs, k) == IF k = 0 THEN <<>> ELSE ShapeOf(evs, k - 1) \o BlockShape(evs[k])

\* ls is the header followed by exactly the lines of shape, then `more` lines
FitsAfterHeader(ls, shape, more) ==
  /\ Len(ls) = Len(HeaderLines) + Len(shape) + more
  /\ \A i \in 1..Len(shape) : Fits(ls[Len(HeaderLines) + i], shape[i])

\* C2: after k events the lines appended are, for each event in turn,
\* BEGIN:VEVENT, [DTSTART], [DTEND], UID, SUMMARY, [DESCRIPTION], [LOCATION],
\* [RRULE], DTSTAMP, END:VEVENT: DTSTART/DTEND iff start/end is present, as
\* ;VALUE=DATE:YYYYMMDD when is_allday_event is "true" in any letter case and
\* as :YYYYMMDDTHHMMSSZ otherwise; SUMMARY always, bare for an empty title;
\* DESCRIPTION, LOCATION and RRULE only when there is one.
C2_BlockLineSequence ==
  pc \in {"loop", "done"} =>
    FitsAfterHeader(lines, ShapeOf(events, idx), IF pc = "done" THEN 1 ELSE 0)

\* an all-day event with every optional field and a weekly recurrence
C2_Witness ==
  /\ pc = "done" /\ Len(events) = 1
  /\ events[1].is_allday_event = T_TRUE
  /\ events[1].start_date = D_WRAPPED_START /\ events[1].end_date = D_PLAIN_END
  /\ events[1].description = DESC_SPECIAL /\ events[1].location = LOC_PADDED
  /\ events[1].recurrence = RecurWeekly
  /\ Len(lines) = 16
  /\ lines[7] = P_DTSTART_DATE \o DATE_WRAPPED_START

\* the logical lines of document d: the closing CRLF dropped, every
\* CRLF+space continuation removed, the rest split at CRLF
Unfold(s) == Replace(s, CRLF \o <<" ">>, <<>>)
LogicalLines(d) == Split(Unfold(SubSeq(d, 1, Len(d) - 2)), CRLF)

\* the k-th element of the set S of numbers, in increasing order
Nth(S, k) == CHOOSE i \in S : Cardinality({j \in S : j < i}) = k - 1

\* the id that goes into the UID
IdText(ev) == IF ev.id = None THEN <<"x">> ELSE ev.id

\* the lines L are the header, one block per event of evs in the order of
\* evs, each closed before the next opens, and the footer
IsDocumentOf(L, evs) ==
  LET begins == {i \in 1..Len(L) : L[i] = L_BEGIN_VEVENT}
      ends == {i \in 1..Len(L) : L[i] = L_END_VEVENT}
  IN  /\ Len(L) > Len(HeaderLines)
      /\ SubSeq(L, 1, Len(HeaderLines)) = HeaderLines
      /\ L[Len(L)] = L_END_VCALENDAR
      /\ Cardinality(begins) = Len(evs)
      /\ Cardinality(ends) = Len(evs)
      /\ (evs = <<>> => L = Append(HeaderLines, L_END_VCALENDAR))
      /\ \A k \in 1..Len(evs) :
           /\ Nth(begins, k) = (IF k = 1 THEN Len(HeaderLines) ELSE Nth(ends, k - 1)) + 1
           /\ Nth(begins, k) < Nth(ends, k)
           /\ (k = Len(evs) => Nth(ends, k) = Len(L) - 1)
           /\ Nth(ends, k) - Nth(begins, k) + 1 = Len(BlockShape(evs[k]))
           /\ \A i \in 1..Len(BlockShape(evs[k])) :
                Fits(L[Nth(begins, k) + i - 1], BlockShape(evs[k])[i])
           /\ \E i \in Nth(begins, k)..Nth(ends, k) :
                StartsWith(L[i], P_UID \o IdText(evs[k]) \o <<"-">>)

\* C3: the document of n events is the five header lines, then n blocks, the
\* k-th that of the k-th event, each from BEGIN:VEVENT to END:VEVENT before
\* the next begins, then END:VCALENDAR; header and footer only when n = 0.
C3_DocumentStructure == pc = "done" => IsDocumentOf(LogicalLines(out), events)

\* a document of two different events
C3_Witness ==
  /\ pc = "done" /\ Len(events) = 2
  /\ IdText(events[1]) # IdText(events[2])
  /\ Len(BlockShape(events[1])) # Len(BlockShape(events[2]))
  /\ out # None

\* position i of d is part of a line break
InBreak(d, i) ==
  \/ d[i] = CR /\ i < Len(d) /\ d[i + 1] = LF
  \/ d[i] = LF /\ i > 1 /\ d[i - 1] = CR

\* C4: in the document of either entry point no physical line is longer than
\* 75 characters, removing the continuations gives back the logical lines,
\* and the document ends with CRLF.
C4_EveryLineFolded ==
  pc = "done" =>
    /\ EndsWith(out, CRLF)
    /\ \A i \in 1..(Len(out) - max_len) : \E j \in i..(i + max_len) : InBreak(out, j)
    /\ LogicalLines(out) = [i \in 1..Len(lines) |-> Unfold(lines[i])]

\* "20261103T00000"
NOW_PREFIX ==
  <<"2","0","2","6","1","1","0","3","T","0","0","0","0","0">>

\* the clock value t, a number of seconds below ten, as YYYYMMDDTHHMMSSZ
NowAsIcs(t) == NOW_PREFIX \o <<Digits[t + 1], "Z">>

\* the UID line of ev when rd holds the clock values read for it
ExpectedUid(ev, rd) ==
  P_UID \o IdText(ev) \o <<"-">>
    \o (IF HasText(ev.start_date) THEN AsIcs(ev.start_date) ELSE NowAsIcs(rd.uid))
    \o UID_SUFFIX

IsUidLine(l) == StartsWith(l, P_UID)

\* the number of the event whose block holds line i of ls
OwnerOf(ls, i) == Cardinality({j \in 1..i : ls[j] = L_BEGIN_VEVENT})

\* ls and ps differ only in DTSTAMP lines and in UID lines of events of evs
\* that have no start
OnlyClockDiffers(ls, ps, evs) ==
  /\ Len(ls) = Len(ps)
  /\ \A i \in 1..Len(ls) :
       ls[i] # ps[i] =>
         \/ StartsWith(ls[i], P_DTSTAMP) /\ StartsWith(ps[i], P_DTSTAMP)
         \/ /\ IsUidLine(ls[i]) /\ IsUidLine(ps[i])
            /\ ~HasText(evs[OwnerOf(ls, i)].start_date)

\* C9: the UID of an event is <id or x>-<start as YYYYMMDDTHHMMSSZ>@mxl2ics,
\* the time read from the clock standing in only when start is absent; two
\* conversions of one input that read the same times give the same document,
\* and otherwise their documents differ only in DTSTAMP lines and in the UID
\* lines of events without start.
C9_DeterministicUpToClock ==
  /\ \A k \in 1..idx : SelectSeq(lines, IsUidLine)[k] = ExpectedUid(events[k], reads[k])
  /\ (pc = "done" /\ prev.done =>
        /\ (reads = prev.reads => out = prev.out)
        /\ OnlyClockDiffers(LogicalLines(out), LogicalLines(prev.out), events))

\* a second conversion, later, of an event with start and one without
C9_Witness ==
  /\ pc = "done" /\ prev.done
  /\ reads # prev.reads /\ out # prev.out
  /\ \E k \in 1..Len(events) : HasText(events[k].start_date)
  /\ \E k \in 1..Len(events) :
       /\ ~HasText(events[k].start_date)
       /\ reads[k].uid # prev.reads[k].uid

====
